---------------------------- MODULE Spec2Model ----------------------------
(***************************************************************************)
(* postconfirm: the challenge/response mail filter.                        *)
(*                                                                         *)
(* The model follows src/src/milter/processor.py (the session decider      *)
(* `handle`, the drop filter, the challenge codec, the challenge emitter   *)
(* and the release loop) and src/src/sender/handler_db.py (the two-table   *)
(* sender store and the message stash).  The Sender object                 *)
(* (src/sender/__init__.py: get_action, validate_ref, stash_message,       *)
(* unstash_messages) is not among the sources; it is modelled from         *)
(* section 4.5 of the specification on top of the HandlerDb operations.    *)
(*                                                                         *)
(* Text (subjects, header values, references) is modelled as sequences of  *)
(* one-character strings so that trimming, regex matching and the          *)
(* challenge codec are computed, not assumed.                              *)
(*                                                                         *)
(* processor.py:196 and :220 call the coroutines extract_headers and       *)
(* extract_body without `await`.  The model takes the value the coroutine  *)
(* computes (the evident intent), so that the decision tree below those    *)
(* lines can be examined at all; the omission itself is recorded with the  *)
(* exception-safety claim.                                                 *)
(*                                                                         *)
(* Specifications: Spec runs MTA sessions through `handle`; LookupSpec     *)
(* applies the sender lookup to stores drawn from a set of rows and        *)
(* patterns; CodecSpec applies the challenge codec to references;          *)
(* FilterSpec applies the drop filter to header lists and to their         *)
(* extensions; ConcSpec interleaves two sessions of one sender at the      *)
(* awaits of `handle`; LegacySpec runs the legacy handler of service.py.   *)
(***************************************************************************)
EXTENDS Integers, Sequences, FiniteSets, TLC

(***************************************************************************)
(* Bounds of the model.                                                    *)
(***************************************************************************)
\* calls of stash_message in one run: each takes one stash id and one fresh
\* reference
MaxStash == 2

(***************************************************************************)
(* Text helpers.                                                           *)
(***************************************************************************)
Whitespace == {" ", "\t", "\n", "\r"}

\* str.lstrip() (processor.py:30, :123)
RECURSIVE LStrip(_)
LStrip(s) ==
    IF s # <<>> /\ Head(s) \in Whitespace THEN LStrip(Tail(s)) ELSE s

\* case folding of re.IGNORECASE, on the letters the model uses
Lower(c) ==
    CASE c = "A" -> "a" [] c = "B" -> "b" [] c = "C" -> "c" [] c = "D" -> "d"
      [] c = "E" -> "e" [] c = "F" -> "f" [] c = "I" -> "i" [] c = "M" -> "m"
      [] c = "N" -> "n" [] c = "O" -> "o" [] c = "R" -> "r"
      [] OTHER -> c

HexChars == {"a", "b", "c", "d", "e", "f",
             "0", "1", "2", "3", "4", "5", "6", "7", "8", "9"}

\* s starts with p, compared exactly
StartsWith(s, p) ==
    /\ Len(s) >= Len(p)
    /\ \A i \in 1..Len(p) : s[i] = p[i]

\* s starts with p, compared ignoring case
StartsWithCI(s, p) ==
    /\ Len(s) >= Len(p)
    /\ \A i \in 1..Len(p) : Lower(s[i]) = Lower(p[i])

\* w occurs somewhere in s (re.search of a literal)
Contains(s, w) ==
    \E i \in 0..(Len(s) - Len(w)) : SubSeq(s, i + 1, i + Len(w)) = w

\* the longest prefix of s made of characters matching [a-f0-9] under IGNORECASE
RECURSIVE HexRun(_)
HexRun(s) ==
    IF s # <<>> /\ Lower(Head(s)) \in HexChars
    THEN <<Head(s)>> \o HexRun(Tail(s))
    ELSE <<>>

(***************************************************************************)
(* Drop filter (processor.py:21-35).                                       *)
(***************************************************************************)
\* default bulk_regex r"(junk|list|bulk|auto_reply)", searched (processor.py:23)
BulkWords == { <<"j","u","n","k">>, <<"l","i","s","t">>, <<"b","u","l","k">>,
               <<"a","u","t","o","_","r","e","p","l","y">> }
MatchBulk(v) == \E w \in BulkWords : Contains(v, w)

\* default auto_submitted_regex r"^auto-", searched (processor.py:26)
MatchAutoSubmitted(v) == StartsWith(v, <<"a","u","t","o","-">>)

\* header_drop_matchers[name].search(entry.lstrip()) for a configured name
HeaderMatches(h) ==
    \/ h.name = "Precedence" /\ MatchBulk(LStrip(h.value))
    \/ h.name = "Auto-Submitted" /\ MatchAutoSubmitted(LStrip(h.value))

\* lines 28-35: the loop returns False at the first matching header, and line 35
\* returns True when no header matched
RECURSIVE message_should_be_dropped(_)
message_should_be_dropped(headers) ==
    IF headers = <<>> THEN TRUE
    ELSE IF HeaderMatches(Head(headers)) THEN FALSE
    ELSE message_should_be_dropped(Tail(headers))

(***************************************************************************)
(* Challenge codec (processor.py:38-49, 90-95).                            *)
(***************************************************************************)
ConfirmPrefix == <<"C","o","n","f","i","r","m",":"," ",":",":">>

\* a subject without the `::` before the reference
get_challenge_subject_no_colons(reference) ==
    <<" ">> \o SubSeq(ConfirmPrefix, 1, Len(ConfirmPrefix) - 2) \o reference

\* f" Confirm: ::{reference}"
get_challenge_subject(reference) == <<" ">> \o ConfirmPrefix \o reference

\* re.match(r"Confirm: ::([a-f0-9]+)", subject, re.IGNORECASE); <<>> stands for None
get_challenge_reference_from_subject(subject) ==
    IF StartsWithCI(subject, ConfirmPrefix)
    THEN HexRun(SubSeq(subject, Len(ConfirmPrefix) + 1, Len(subject)))
    ELSE <<>>

\* `if not subject: return False`, then the reference's truthiness
subject_is_challenge_response(subject) ==
    IF subject = <<>> THEN FALSE
    ELSE get_challenge_reference_from_subject(subject) # <<>>

\* processor.py:16-18
recipient_requires_challenge(recipients) == recipients

\* extract_headers (processor.py:107-127): the last Subject header, left-trimmed;
\* <<>> stands for None
RECURSIVE SubjectOf(_, _)
SubjectOf(headers, found) ==
    IF headers = <<>> THEN found
    ELSE SubjectOf(Tail(headers),
                   IF Head(headers).name = "Subject"
                   THEN LStrip(Head(headers).value) ELSE found)
extract_subject(headers) == SubjectOf(headers, <<>>)

(***************************************************************************)
(* Sender store (handler_db.py).                                           *)
(*                                                                         *)
(* A row is [action, ref]; `ref` is the TEXT column: NULL, a JSON array    *)
(* of references, or a legacy bare string.  A missing row is NoRow.        *)
(***************************************************************************)
Senders == {"a@x", "b@x"}
Actions == {"accept", "reject", "discard", "confirm", "unknown", "expired"}

NullRef == [kind |-> "null", refs |-> {}, s |-> <<>>]
JsonRef(R) == [kind |-> "json", refs |-> R, s |-> <<>>]
BareRef(str) == [kind |-> "bare", refs |-> {}, s |-> str]
NoRow == [action |-> "none", ref |-> NullRef]
Row(action, ref) == [action |-> action, ref |-> ref]

Digits == {"0", "1", "2", "3", "4", "5", "6", "7", "8", "9"}

\* json.loads reads the text as an integer: digits, with no leading zero
IsJsonInt(s) ==
    /\ s # <<>>
    /\ \A i \in 1..Len(s) : s[i] \in Digits
    /\ Len(s) > 1 => s[1] # "0"

\* json.loads (handler_db.py:97) reads a bare string as a number instead of
\* raising JSONDecodeError: an integer, or an integer with an exponent
IsJsonNumber(s) ==
    \/ IsJsonInt(s)
    \/ \E k \in 2..(Len(s) - 1) :
          /\ s[k] \in {"e", "E"}
          /\ IsJsonInt(SubSeq(s, 1, k - 1))
          /\ \A i \in (k + 1)..Len(s) : s[i] \in Digits

\* _extract_refs (handler_db.py:93-103): json.loads, and on a decode error a
\* non-empty bare string becomes a one-element list.  None and [] are both
\* {}; so is a number, which decoded_type tells apart.
extract_refs(ref_entry) ==
    CASE ref_entry.kind = "json" -> ref_entry.refs
      [] ref_entry.kind = "bare" /\ IsJsonNumber(ref_entry.s) -> {}
      [] ref_entry.kind = "bare" -> IF ref_entry.s # <<>> THEN {ref_entry.s} ELSE {}
      [] OTHER -> {}

\* truthiness of the ref column (`if result[1]:`)
RefTruthy(ref_entry) ==
    \/ ref_entry.kind = "json"
    \/ ref_entry.kind = "bare" /\ ref_entry.s # <<>>

\* what _extract_refs returns for a column: a list, a number, or None
decoded_type(ref_entry) ==
    CASE ref_entry.kind = "json" -> "list"
      [] ref_entry.kind = "bare" /\ IsJsonNumber(ref_entry.s) -> "number"
      [] ref_entry.kind = "bare" /\ ref_entry.s # <<>> -> "list"
      [] OTHER -> "none"

\* truthiness of what _extract_refs returned (`elif static_refs:`): a
\* non-empty list, or a number other than zero
DecodedTruthy(ref_entry) ==
    CASE decoded_type(ref_entry) = "list" -> extract_refs(ref_entry) # {}
      [] decoded_type(ref_entry) = "number" -> ref_entry.s[1] # "0"
      [] OTHER -> FALSE

\* `if not action: action = static_result[0]` with the constant answer of a
\* lookup that prefers the static table
merge_action_static_first(action, static_action) == static_action

\* `if not action: action = static_result[0]` (handler_db.py:75-76)
merge_action(action, static_action) ==
    IF action = "none" THEN static_action ELSE action

\* get_action_for_sender (handler_db.py:36-91) on the two tables
get_action_for_sender(dyn, stat, sender) ==
    LET result == dyn[sender]
        static_result == stat[sender]
        action1 == IF result # NoRow THEN result.action ELSE "none"
        has1 == result # NoRow /\ RefTruthy(result.ref)
        refs1 == IF has1 THEN extract_refs(result.ref) ELSE {}
        type1 == IF has1 THEN decoded_type(result.ref) ELSE "none"
        action2 == IF static_result # NoRow
                   THEN merge_action(action1, static_result.action) ELSE action1
        has2 == static_result # NoRow /\ RefTruthy(static_result.ref)
        refs2 == IF has2 THEN refs1 \cup extract_refs(static_result.ref) ELSE refs1
        \* lines 81-86: refs = static_refs, or list(set(refs).union(static_refs)),
        \* which raises TypeError when either side is a number
        type2 == IF ~has2 THEN type1
                 ELSE IF type1 = "none" THEN decoded_type(static_result.ref)
                 ELSE IF ~DecodedTruthy(static_result.ref) THEN type1
                 ELSE IF type1 = "number"
                         \/ decoded_type(static_result.ref) = "number"
                 THEN "TypeError"
                 ELSE "list"
    IN  [action |-> IF action2 = "none" THEN "unknown" ELSE action2,
         refs |-> IF type2 \in {"list", "none"} THEN refs2 ELSE {},
         refs_type |-> type2]

\* get_patterns (handler_db.py:105-128): the rows of type 'P' of both tables
\* as one UNION; a row is [sender, action], `sender` holding the regex
get_patterns(pats) == pats

\* the text of an address of the model
AddressText(sender) ==
    CASE sender = "a@x" -> <<"a", "@", "x">>
      [] sender = "b@x" -> <<"b", "@", "x">>

\* re.match on the patterns of the model: `.*` stands for any text, every
\* other character for itself, and the match is anchored at the start only
RECURSIVE re_match(_, _)
re_match(p, s) ==
    IF p = <<>> THEN TRUE
    ELSE IF Len(p) >= 2 /\ p[1] = "." /\ p[2] = "*"
    THEN \E k \in 0..Len(s) :
            re_match(SubSeq(p, 3, Len(p)), SubSeq(s, k + 1, Len(s)))
    ELSE /\ s # <<>>
         /\ Head(s) = Head(p)
         /\ re_match(Tail(p), Tail(s))

\* the code point of a character of the patterns and addresses of the model
CharCode(c) ==
    CASE c = "*" -> 42 [] c = "." -> 46 [] c = "@" -> 64
      [] c = "a" -> 97 [] c = "b" -> 98 [] c = "x" -> 120

\* p sorts strictly before q as a string
RECURSIVE LexLess(_, _)
LexLess(p, q) ==
    IF q = <<>> THEN FALSE
    ELSE IF p = <<>> THEN TRUE
    ELSE IF Head(p) # Head(q) THEN CharCode(Head(p)) < CharCode(Head(q))
    ELSE LexLess(Tail(p), Tail(q))

\* the first of a non-empty set of pattern rows in lexicographic order
first_pattern(rows) ==
    CHOOSE p \in rows : \A q \in rows : ~LexLess(q.sender, p.sender)

\* json.dumps(ref) if ref else None (handler_db.py:136)
encoded_ref(refs) == IF refs = {} THEN NullRef ELSE JsonRef(refs)

\* the row an existing row becomes under ON CONFLICT (sender) DO UPDATE SET
\* action=... (handler_db.py:145-146): only the action column is written
on_conflict_update(old, action, refs) == [old EXCEPT !.action = action]

\* set_action_for_sender (handler_db.py:130-155), the statement succeeding
set_action_for_sender(dyn, sender, action, refs) ==
    IF dyn[sender] = NoRow
    THEN [dyn EXCEPT ![sender] = Row(action, encoded_ref(refs))]
    ELSE [dyn EXCEPT ![sender] = on_conflict_update(dyn[sender], action, refs)]

(***************************************************************************)
(* State.                                                                  *)
(***************************************************************************)
VARIABLES
    senders,         \* table senders (type 'E'): sender -> row
    senders_static,  \* table senders_static (type 'E'): sender -> row
    stash,           \* table stash: set of [id, sender, recipients, message]
    stash_static,    \* table stash_static, same shape
    next_id,         \* the stash id, and the index of the reference, handed out next
    pc,              \* per session: where `handle` stands
    msg,             \* per session: the message of the MTA session
    loc,             \* per session: the locals of `handle` and of the generator
    verdict,         \* per session: the verdict returned, "none" before that
    eff,             \* per session: what this session inserted, deleted, relayed
    pre,             \* per session: the tables as they were when it started
    patterns,        \* the rows of type 'P' of both sender tables
    fx,              \* a function applied on its own: its input and its result
    legacy           \* the legacy service (service.py): its globals and its files

vars == <<senders, senders_static, stash, stash_static, next_id,
          pc, msg, loc, verdict, eff, pre, patterns, fx, legacy>>

AllSessions == {1, 2}

\* the n-th fresh reference: lowercase hex, distinct for distinct n < 10
HexDigit(n) == <<"0","1","2","3","4","5","6","7","8","9">>[n + 1]
RefOf(n) == <<"a", HexDigit(n)>>
\* a reference no challenge ever carried
BadRef == <<"d","e","a","d">>
\* a legacy bare-string reference of the static table
LegacyRef == <<"e","e">>

(***************************************************************************)
(* The messages an MTA session delivers.                                   *)
(***************************************************************************)
Hdr(name, value) == [name |-> name, value |-> value]
PrecBulk == Hdr("Precedence", <<" ","b","u","l","k">>)
PrecFirst == Hdr("Precedence", <<" ","f","i","r","s","t">>)
AutoNo == Hdr("Auto-Submitted", <<" ","n","o">>)

\* header lists of messages that are not challenge responses: a plain one, a
\* bulk one, and one without Subject whose configured headers do not match
PlainHeaders == { <<Hdr("Subject", <<" ","H","i">>)>>,
                  <<PrecBulk, Hdr("Subject", <<" ","H","i">>)>>,
                  <<PrecFirst, AutoNo>> }

\* the references a reply may carry
ReplyRefs == { BadRef, LegacyRef } \cup { RefOf(n) : n \in 1..MaxStash }

\* header lists of challenge responses, without and with a bulk header
ResponseHeaders ==
    { <<Hdr("Subject", get_challenge_subject(r))>> : r \in ReplyRefs }
    \cup { <<PrecBulk, Hdr("Subject", get_challenge_subject(r))>> : r \in ReplyRefs }

HeaderLists == PlainHeaders \cup ResponseHeaders

RecipientLists == { <<>>, <<"list@x">> }

Messages == [from : Senders, rcpts : RecipientLists, headers : HeaderLists]

NoMsg == [from |-> "none", rcpts |-> <<>>, headers |-> <<>>]

NoEntry == [id |-> 0, sender |-> "none", recipients |-> <<>>, message |-> <<>>]

NoLoc == [challenge_recipients |-> <<>>, mail_subject |-> <<>>,
          is_challenge_response |-> FALSE, should_drop |-> FALSE,
          action |-> "none", refs |-> {}, reference |-> <<>>,
          phase |-> "none", cursor |-> <<>>, row |-> NoEntry,
          gen_error |-> FALSE]

NoEff == [stashed |-> {}, deleted |-> {}, relay |-> <<>>, set_action |-> <<>>]

NoPre == [senders |-> [x \in Senders |-> NoRow], stash |-> {}, stash_static |-> {}]

\* a sendmail call handed to the relayer, and whether the relayer took it
Call(kind, to, subject, entry, ok) ==
    [kind |-> kind, to |-> to, subject |-> subject, entry |-> entry, ok |-> ok]

(***************************************************************************)
(* Init: the dynamic tables are empty; the operator-managed static tables   *)
(* hold any of a few rows.                                                 *)
(***************************************************************************)
StaticRows == { NoRow, Row("accept", NullRef), Row("reject", NullRef),
                Row("discard", NullRef), Row("expired", NullRef),
                Row("confirm", BareRef(LegacyRef)) }

StaticStashes ==
    { {}, { [id |-> 100, sender |-> "b@x", recipients |-> <<"list@x">>,
             message |-> <<PrecBulk>>] } }

\* no session has begun
NoSessions ==
    /\ pc = [s \in AllSessions |-> "idle"]
    /\ msg = [s \in AllSessions |-> NoMsg]
    /\ loc = [s \in AllSessions |-> NoLoc]
    /\ verdict = [s \in AllSessions |-> "none"]
    /\ eff = [s \in AllSessions |-> NoEff]
    /\ pre = [s \in AllSessions |-> NoPre]

\* no function is being applied on its own
NoFx == [op |-> "none"]

\* the legacy service is not running
NoLegacy == [op |-> "none"]

\* the filter starts on a store without pattern rows
Init ==
    /\ senders = [x \in Senders |-> NoRow]
    /\ \E r \in StaticRows :
          senders_static = [x \in Senders |-> IF x = "b@x" THEN r ELSE NoRow]
    /\ patterns = {}
    /\ stash = {}
    /\ stash_static \in StaticStashes
    /\ next_id = 1
    /\ NoSessions
    /\ legacy = NoLegacy
    /\ fx = NoFx

(***************************************************************************)
(* Helpers of the actions.                                                 *)
(***************************************************************************)
\* every ordering of a set of rows: the SELECTs of unstash_messages_for_sender
\* (handler_db.py:192-200, 215-223) carry no ORDER BY
Perms(S) ==
    { f \in [1..Cardinality(S) -> S] :
        \A i, j \in 1..Cardinality(S) : f[i] = f[j] => i = j }

RowsOf(table, sender) == { e \in table : e.sender = sender }

\* `handle` returns v
Return(s, v) ==
    /\ pc' = [pc EXCEPT ![s] = "done"]
    /\ verdict' = [verdict EXCEPT ![s] = v]

\* `handle` moves on to the statement labelled l
Goto(s, l) ==
    /\ pc' = [pc EXCEPT ![s] = l]
    /\ UNCHANGED verdict

\* an exception leaves `handle`
Raise(s) == Goto(s, "raised")

\* a message that may get as far as the stash insert (processor.py:206)
MayStash(m) ==
    /\ recipient_requires_challenge(m.rcpts) # <<>>
    /\ ~subject_is_challenge_response(extract_subject(m.headers))

\* Sender.get_action (section 4.5): the store's answer for the sender's
\* address; when it is unknown, the action of the first pattern, in the
\* lexicographic order of the pattern strings, that matches the address
sender_get_action(dyn, stat, pats, sender) ==
    LET r == get_action_for_sender(dyn, stat, sender)
        matching == {p \in get_patterns(pats) : re_match(p.sender, AddressText(sender))}
    IN  IF r.action = "unknown" /\ matching # {}
        THEN [r EXCEPT !.action = first_pattern(matching).action]
        ELSE r

\* Sender.validate_ref (section 4.5): the candidate is in the sender's ref set
validate_ref(refs, candidate) == candidate \in refs

\* a decider that lets every reference through to the release
reference_is_never_rejected(valid) == FALSE

\* `if not sender.validate_ref(reference): return Reject()` (processor.py:238-240)
reference_is_rejected(valid) == ~valid

\* Sender.stash_message (section 4.5): the refs handed to set_action_for_sender;
\* a sender already in confirm gets the reference appended, any other sender
\* moves to confirm with the new reference alone
stash_message_refs(action, refs, reference) ==
    IF action = "confirm" THEN refs \cup {reference} ELSE {reference}

\* the condition of processor.py:226 with the expired case forgotten
needs_challenge_unknown_only(action) == action = "unknown"

\* processor.py:226
needs_challenge(action) == action = "unknown" \/ action = "expired"

(***************************************************************************)
(* handle, lines 182-204 and the branch of lines 203-246: the envelope,    *)
(* the headers, the three predicates and the choice of the branch.         *)
(***************************************************************************)
Start(s, m) ==
    /\ pc[s] = "idle"
    /\ MayStash(m) => next_id <= MaxStash
    /\ LET challenge_recipients == recipient_requires_challenge(m.rcpts)
           mail_subject == extract_subject(m.headers)
           is_challenge_response == subject_is_challenge_response(mail_subject)
           should_drop == message_should_be_dropped(m.headers)
       IN  /\ msg' = [msg EXCEPT ![s] = m]
           /\ loc' = [loc EXCEPT ![s] =
                        [NoLoc EXCEPT !.challenge_recipients = challenge_recipients,
                                      !.mail_subject = mail_subject,
                                      !.is_challenge_response = is_challenge_response,
                                      !.should_drop = should_drop]]
           /\ IF challenge_recipients # <<>> /\ should_drop
              THEN Return(s, "DISCARD")
              ELSE IF challenge_recipients # <<>> /\ ~is_challenge_response
              THEN Goto(s, "L208")
              ELSE IF is_challenge_response
              THEN Goto(s, "L233")
              ELSE Return(s, "ACCEPT")
    /\ eff' = [eff EXCEPT ![s] = NoEff]
    /\ pre' = [pre EXCEPT ![s] = [senders |-> senders, stash |-> stash,
                                  stash_static |-> stash_static]]
    /\ UNCHANGED <<patterns, fx, legacy, senders, senders_static, stash, stash_static, next_id>>

(***************************************************************************)
(* handle, lines 208-215: sender.get_action() for a message that is not a  *)
(* challenge response.  get_action_for_sender has no handler around its    *)
(* queries: a failing query raises through get_action into handle.         *)
(***************************************************************************)
GetActionForMessage(s) ==
    /\ pc[s] = "L208"
    /\ \/ /\ Raise(s)
          /\ UNCHANGED loc
       \/ LET r == sender_get_action(senders, senders_static, patterns, msg[s].from)
          IN  /\ loc' = [loc EXCEPT ![s].action = r.action, ![s].refs = r.refs]
              /\ CASE r.action = "accept" -> Return(s, "ACCEPT")
                   [] r.action = "reject" -> Return(s, "REJECT")
                   [] r.action = "discard" -> Return(s, "DISCARD")
                   [] OTHER -> Goto(s, "L224")
    /\ UNCHANGED <<patterns, fx, legacy, senders, senders_static, stash, stash_static, next_id,
                   msg, eff, pre>>

(***************************************************************************)
(* handle, line 224: sender.stash_message(mail_as_text, mail_recipients).  *)
(* Sender.stash_message allocates a fresh reference, inserts the entry     *)
(* (stash_message_for_sender, handler_db.py:157-180: a failing insert is   *)
(* caught and answered False) and attaches the reference to the sender     *)
(* (set_action_for_sender, handler_db.py:130-155: a failing statement is   *)
(* caught and answered False).                                             *)
(***************************************************************************)
StashMessage(s) ==
    /\ pc[s] = "L224"
    /\ next_id <= MaxStash
    /\ LET sender == msg[s].from
           reference == RefOf(next_id)
           entry == [id |-> next_id, sender |-> sender,
                     recipients |-> msg[s].rcpts, message |-> msg[s].headers]
           new_refs == stash_message_refs(loc[s].action, loc[s].refs, reference)
       IN  /\ \/ /\ stash' = stash \cup {entry}
                 /\ \/ /\ senders' = set_action_for_sender(senders, sender,
                                                           "confirm", new_refs)
                       /\ eff' = [eff EXCEPT ![s].stashed = @ \cup {entry.id},
                                             ![s].set_action = Append(@, TRUE)]
                    \/ /\ UNCHANGED senders
                       /\ eff' = [eff EXCEPT ![s].stashed = @ \cup {entry.id},
                                             ![s].set_action = Append(@, FALSE)]
              \/ UNCHANGED <<stash, senders, eff>>
           /\ next_id' = next_id + 1
           /\ loc' = [loc EXCEPT ![s].reference = reference]
           /\ IF needs_challenge(loc[s].action)
              THEN Goto(s, "L227")
              ELSE Return(s, "DISCARD")
    /\ UNCHANGED <<patterns, fx, legacy, senders_static, stash_static, msg, pre>>

(***************************************************************************)
(* handle, lines 226-229: send_challenge (processor.py:60-87) hands the    *)
(* challenge to the relayer; a failing relayer call raises through         *)
(* send_challenge into handle.                                             *)
(***************************************************************************)
SendChallenge(s) ==
    /\ pc[s] = "L227"
    /\ \E ok \in BOOLEAN :
          /\ eff' = [eff EXCEPT ![s].relay =
                        Append(@, Call("challenge", <<msg[s].from>>,
                                       get_challenge_subject(loc[s].reference), 0, ok))]
          /\ IF ok THEN Return(s, "DISCARD") ELSE Raise(s)
    /\ UNCHANGED <<patterns, fx, legacy, senders, senders_static, stash, stash_static, next_id,
                   msg, loc, pre>>

(***************************************************************************)
(* handle, lines 233-243: sender.get_action() for a challenge response,    *)
(* the reference check, and the call of release_messages.                  *)
(***************************************************************************)
GetActionForResponse(s) ==
    /\ pc[s] = "L233"
    /\ \/ /\ Raise(s)
          /\ UNCHANGED loc
       \/ LET r == sender_get_action(senders, senders_static, patterns, msg[s].from)
              reference == get_challenge_reference_from_subject(loc[s].mail_subject)
          IN  IF r.action = "confirm"
              THEN /\ loc' = [loc EXCEPT ![s].action = r.action, ![s].refs = r.refs,
                                         ![s].reference = reference,
                                         ![s].phase =
                                            IF reference_is_rejected(
                                                  validate_ref(r.refs, reference))
                                            THEN "none" ELSE "dyn"]
                   /\ IF reference_is_rejected(validate_ref(r.refs, reference))
                      THEN Return(s, "REJECT")
                      ELSE Goto(s, "U_select")
              ELSE /\ loc' = [loc EXCEPT ![s].action = r.action, ![s].refs = r.refs]
                   /\ Return(s, "ACCEPT")
    /\ UNCHANGED <<patterns, fx, legacy, senders, senders_static, stash, stash_static, next_id,
                   msg, eff, pre>>

(***************************************************************************)
(* release_messages (processor.py:145-152) driving the generator           *)
(* unstash_messages_for_sender (handler_db.py:182-240) through             *)
(* Sender.unstash_messages.  Any exception inside the generator is caught  *)
(* at line 238 and ends it.                                                *)
(***************************************************************************)
\* a DELETE keyed by the sender instead of the id: every entry of the sender
\* leaves the table at the first resumption
delete_by_sender(table, row) == {e \in table : e.sender # row.sender}

\* `DELETE FROM stash WHERE id=%s` with the id of the row just yielded
\* (lines 206-210, 229-233): one entry leaves the table
delete_by_id(table, row) == {e \in table : e.id # row.id}

\* the SELECT of the table of the current phase (lines 192-200, 215-223)
UnstashSelect(s) ==
    /\ pc[s] = "U_select"
    /\ \/ /\ Goto(s, "U_end")
          /\ loc' = [loc EXCEPT ![s].gen_error = TRUE]
       \/ /\ \E cursor \in Perms(RowsOf(IF loc[s].phase = "dyn" THEN stash
                                        ELSE stash_static, msg[s].from)) :
                loc' = [loc EXCEPT ![s].cursor = cursor]
          /\ Goto(s, "U_next")
    /\ UNCHANGED <<patterns, fx, legacy, senders, senders_static, stash, stash_static, next_id,
                   msg, eff, pre>>

\* `for (row_id, recipients, message) in cursor:` and the yield (lines 202-203,
\* 225-226); an exhausted cursor moves to the static table, then to the end
UnstashNext(s) ==
    /\ pc[s] = "U_next"
    /\ IF loc[s].cursor # <<>>
       THEN /\ loc' = [loc EXCEPT ![s].row = Head(loc[s].cursor),
                                  ![s].cursor = Tail(loc[s].cursor)]
            /\ Goto(s, "U_yield")
       ELSE IF loc[s].phase = "dyn"
       THEN /\ loc' = [loc EXCEPT ![s].phase = "static"]
            /\ Goto(s, "U_select")
       ELSE /\ UNCHANGED loc
            /\ Goto(s, "U_end")
    /\ UNCHANGED <<patterns, fx, legacy, senders, senders_static, stash, stash_static, next_id,
                   msg, eff, pre>>

\* the consumer's turn: mailer.sendmail(sender.get_email(), recipients, message)
\* (processor.py:152); a failing relayer call raises out of release_messages
ReleaseSendmail(s) ==
    /\ pc[s] = "U_yield"
    /\ \E ok \in BOOLEAN :
          /\ eff' = [eff EXCEPT ![s].relay =
                        Append(@, Call("release", loc[s].row.recipients, <<>>,
                                       loc[s].row.id, ok))]
          /\ IF ok THEN Goto(s, "U_delete") ELSE Raise(s)
    /\ UNCHANGED <<patterns, fx, legacy, senders, senders_static, stash, stash_static, next_id,
                   msg, loc, pre>>

\* the generator resumed: DELETE ... WHERE id=row_id and commit (lines 206-213,
\* 229-236)
UnstashDelete(s) ==
    /\ pc[s] = "U_delete"
    /\ \/ /\ Goto(s, "U_end")
          /\ loc' = [loc EXCEPT ![s].gen_error = TRUE]
          /\ UNCHANGED <<stash, stash_static, eff>>
       \/ /\ IF loc[s].phase = "dyn"
             THEN /\ stash' = delete_by_id(stash, loc[s].row)
                  /\ UNCHANGED stash_static
             ELSE /\ stash_static' = delete_by_id(stash_static, loc[s].row)
                  /\ UNCHANGED stash
          /\ eff' = [eff EXCEPT ![s].deleted = @ \cup {loc[s].row.id}]
          /\ Goto(s, "U_next")
          /\ UNCHANGED loc
    /\ UNCHANGED <<patterns, fx, legacy, senders, senders_static, next_id, msg, pre>>

\* the generator has ended: Sender.unstash_messages sets the action to accept
\* with no refs (set_action_for_sender), release_messages returns, and handle
\* reaches line 246
UnstashEnd(s) ==
    /\ pc[s] = "U_end"
    /\ \/ /\ senders' = set_action_for_sender(senders, msg[s].from, "accept", {})
          /\ eff' = [eff EXCEPT ![s].set_action = Append(@, TRUE)]
       \/ /\ UNCHANGED senders
          /\ eff' = [eff EXCEPT ![s].set_action = Append(@, FALSE)]
    /\ Return(s, "ACCEPT")
    /\ UNCHANGED <<patterns, fx, legacy, senders_static, stash, stash_static, next_id,
                   msg, loc, pre>>

\* the MTA session is over; the next one may begin
Finish(s) ==
    /\ pc[s] \in {"done", "raised"}
    /\ pc' = [pc EXCEPT ![s] = "idle"]
    /\ msg' = [msg EXCEPT ![s] = NoMsg]
    /\ loc' = [loc EXCEPT ![s] = NoLoc]
    /\ verdict' = [verdict EXCEPT ![s] = "none"]
    /\ eff' = [eff EXCEPT ![s] = NoEff]
    /\ pre' = [pre EXCEPT ![s] = NoPre]
    /\ UNCHANGED <<patterns, fx, legacy, senders, senders_static, stash, stash_static, next_id>>

(***************************************************************************)
(* Specification: the MTA hands over one session at a time.                *)
(***************************************************************************)
SessionStep(s) ==
    \/ \E m \in Messages : Start(s, m)
    \/ GetActionForMessage(s)
    \/ StashMessage(s)
    \/ SendChallenge(s)
    \/ GetActionForResponse(s)
    \/ UnstashSelect(s)
    \/ UnstashNext(s)
    \/ ReleaseSendmail(s)
    \/ UnstashDelete(s)
    \/ UnstashEnd(s)
    \/ Finish(s)

Next == SessionStep(1)

Spec == Init /\ [][Next]_vars

(***************************************************************************)
(* Vocabulary of the claims.                                               *)
(***************************************************************************)
Verdicts == {"ACCEPT", "REJECT", "DISCARD"}

\* the session has ended, with a verdict or with an exception
Ended(s) == pc[s] \in {"done", "raised"}

\* some header fires a configured drop predicate
Fires(headers) == \E i \in 1..Len(headers) : HeaderMatches(headers[i])

\* the subject of the session's message is a challenge response
IsResponse(s) == subject_is_challenge_response(extract_subject(msg[s].headers))

\* the store's answer for the session's sender when the session began
PreLookup(s) ==
    sender_get_action(pre[s].senders, senders_static, patterns, msg[s].from)

\* the sendmail calls of the session that carry a challenge
Challenges(s) == SelectSeq(eff[s].relay, LAMBDA c : c.kind = "challenge")

\* the references stored in the sender's row of the dynamic table
StoredRefs(sender) == extract_refs(senders[sender].ref)

(***************************************************************************)
(* C1.  For every message and every outcome of the store and relayer       *)
(* calls, handle ends by returning exactly one of Accept, Reject, Discard  *)
(* and never ends with an exception.                                       *)
(***************************************************************************)
C1_AlwaysVerdict ==
    \A s \in AllSessions : Ended(s) => (pc[s] = "done" /\ verdict[s] \in Verdicts)

(***************************************************************************)
(* C2.  Non-empty challenge_recipients, no header firing a drop predicate, *)
(* not a challenge response: accept gives ACCEPT, reject gives REJECT,     *)
(* discard gives DISCARD, and nothing is stashed and no challenge is sent. *)
(* Stated for the sessions that return a verdict.                          *)
(***************************************************************************)
C2_SimpleActions ==
    \A s \in AllSessions :
        ( /\ pc[s] = "done"
          /\ msg[s].rcpts # <<>>
          /\ ~Fires(msg[s].headers)
          /\ ~IsResponse(s)
          /\ PreLookup(s).action \in {"accept", "reject", "discard"} )
        => /\ PreLookup(s).action = "accept" => verdict[s] = "ACCEPT"
           /\ PreLookup(s).action = "reject" => verdict[s] = "REJECT"
           /\ PreLookup(s).action = "discard" => verdict[s] = "DISCARD"
           /\ eff[s].stashed = {}
           /\ Challenges(s) = <<>>

(***************************************************************************)
(* C3.  A reply `Confirm: ::r` from a sender in confirm, r in the sender's *)
(* ref set: every message stashed for the sender is handed to the relayer  *)
(* with the recipients recorded in the stash, and the verdict is ACCEPT.   *)
(* Stated for the sessions that return a verdict and whose message         *)
(* carries no header that fires a drop predicate, as in scenario 4.        *)
(***************************************************************************)
C3_ValidConfirmation ==
    \A s \in AllSessions :
        ( /\ pc[s] = "done"
          /\ ~Fires(msg[s].headers)
          /\ IsResponse(s)
          /\ PreLookup(s).action = "confirm"
          /\ get_challenge_reference_from_subject(extract_subject(msg[s].headers))
                \in PreLookup(s).refs )
        => /\ verdict[s] = "ACCEPT"
           /\ \A e \in RowsOf(pre[s].stash \cup pre[s].stash_static, msg[s].from) :
                 \E i \in 1..Len(eff[s].relay) :
                    /\ eff[s].relay[i].kind = "release"
                    /\ eff[s].relay[i].entry = e.id
                    /\ eff[s].relay[i].to = e.recipients

(***************************************************************************)
(* C4.  Non-empty challenge_recipients, no drop predicate firing, not a    *)
(* challenge response, a sender with no record: the verdict is DISCARD,    *)
(* the dynamic stash gains exactly one entry for the sender, exactly one   *)
(* challenge with subject ` Confirm: ::<ref>` goes to the relayer, and the *)
(* sender's stored state is (confirm, {ref}).                              *)
(* Stated for the sessions that return a verdict.                          *)
(***************************************************************************)
C4_UnknownSender ==
    \A s \in AllSessions :
        ( /\ pc[s] = "done"
          /\ msg[s].rcpts # <<>>
          /\ ~Fires(msg[s].headers)
          /\ ~IsResponse(s)
          /\ pre[s].senders[msg[s].from] = NoRow
          /\ senders_static[msg[s].from] = NoRow )
        => /\ verdict[s] = "DISCARD"
           /\ \E e \in stash :
                 /\ e.sender = msg[s].from
                 /\ e \notin pre[s].stash
                 /\ stash = pre[s].stash \cup {e}
           /\ Len(Challenges(s)) = 1
           /\ Challenges(s)[1].subject = get_challenge_subject(loc[s].reference)
           /\ senders[msg[s].from] = Row("confirm", JsonRef({loc[s].reference}))

(***************************************************************************)
(* C5.  A call of stash_message adds exactly one entry to the dynamic      *)
(* stash, and afterwards the sender's stored ref set contains the returned *)
(* reference; for a sender already in confirm with ref set R the stored    *)
(* set is R with the new reference added.                                  *)
(* Stated for the calls whose INSERT and whose set_action statement both   *)
(* succeed.                                                                *)
(***************************************************************************)
C5_StashAttachesRef ==
    \A s \in AllSessions :
        ( /\ eff[s].stashed # {}
          /\ eff[s].set_action = <<TRUE>> )
        => /\ Cardinality(stash) = Cardinality(pre[s].stash) + 1
           /\ loc[s].reference \in StoredRefs(msg[s].from)
           /\ pre[s].senders[msg[s].from].action = "confirm"
                 => StoredRefs(msg[s].from) =
                       extract_refs(pre[s].senders[msg[s].from].ref)
                          \cup {loc[s].reference}

(***************************************************************************)
(* C6.  A reply `Confirm: ::r` from a sender in confirm with r not in the  *)
(* sender's ref set gets REJECT.                                           *)
(* Stated for the sessions that return a verdict and whose message         *)
(* carries no header that fires a drop predicate, as in scenario 5.        *)
(***************************************************************************)
C6_UnknownReference ==
    \A s \in AllSessions :
        ( /\ pc[s] = "done"
          /\ ~Fires(msg[s].headers)
          /\ IsResponse(s)
          /\ PreLookup(s).action = "confirm"
          /\ get_challenge_reference_from_subject(extract_subject(msg[s].headers))
                \notin PreLookup(s).refs )
        => verdict[s] = "REJECT"

(***************************************************************************)
(* C7.  A message to challenge recipients with a header firing a drop      *)
(* predicate, from a sender whose action is unknown: the verdict is        *)
(* DISCARD, nothing is stashed, the sender's record is neither created nor *)
(* changed, and no challenge is sent.                                      *)
(* Stated for the sessions that return a verdict and whose message is not  *)
(* a challenge response, as in scenario 6.                                 *)
(***************************************************************************)
C7_BulkIsSilent ==
    \A s \in AllSessions :
        ( /\ pc[s] = "done"
          /\ msg[s].rcpts # <<>>
          /\ Fires(msg[s].headers)
          /\ ~IsResponse(s)
          /\ PreLookup(s).action = "unknown" )
        => /\ verdict[s] = "DISCARD"
           /\ eff[s].stashed = {}
           /\ stash = pre[s].stash
           /\ senders[msg[s].from] = pre[s].senders[msg[s].from]
           /\ Challenges(s) = <<>>

(***************************************************************************)
(* C8.  The drop filter answers true exactly when some header fires a      *)
(* configured predicate, and false for a list in which none fires, the     *)
(* empty list included.                                                    *)
(***************************************************************************)
C8_DropIffFires ==
    \A s \in AllSessions :
        pc[s] # "idle" => (loc[s].should_drop <=> Fires(msg[s].headers))

(***************************************************************************)
(* C9.  A message that is not a challenge response, with non-empty         *)
(* challenge_recipients, from a sender whose action is unknown, confirm or *)
(* expired, always ends with the verdict DISCARD.                          *)
(***************************************************************************)
C9_PendingIsDiscarded ==
    \A s \in AllSessions :
        ( /\ Ended(s)
          /\ msg[s].rcpts # <<>>
          /\ ~IsResponse(s)
          /\ PreLookup(s).action \in {"unknown", "confirm", "expired"} )
        => verdict[s] = "DISCARD"

(***************************************************************************)
(* C10.  In a session that stashes a message, a challenge is handed to the *)
(* relayer (sendmail is called with it) if and only if the action read in  *)
(* the session is unknown or expired; for confirm the message is stashed   *)
(* and no challenge is handed over.                                        *)
(***************************************************************************)
C10_ChallengeIffUnknownOrExpired ==
    \A s \in AllSessions :
        ( Ended(s) /\ eff[s].stashed # {} )
        => /\ Challenges(s) # <<>> <=> loc[s].action \in {"unknown", "expired"}
           /\ Len(Challenges(s)) <= 1
           /\ loc[s].action = "confirm" => Challenges(s) = <<>>

\* a finished session that stashed for a sender already in confirm and sent nothing
C10_Witness ==
    \E s \in AllSessions :
        /\ pc[s] = "done"
        /\ eff[s].stashed # {}
        /\ loc[s].action = "confirm"
        /\ eff[s].relay = <<>>

\* the sendmail calls of the session that release a stashed message
Releases(s) == SelectSeq(eff[s].relay, LAMBDA c : c.kind = "release")

\* the generator of the session's release was iterated to its natural end:
\* both tables were read to exhaustion and no store call inside it failed
NaturalEnd(s) ==
    /\ pc[s] = "done"
    /\ loc[s].phase = "static"
    /\ ~loc[s].gen_error

\* the entry with this id belongs to the static stash
IsStaticId(s, id) == \E e \in pre[s].stash_static : e.id = id

(***************************************************************************)
(* C11.  After the generator of a release has been iterated to its natural *)
(* end, the sender's stored action is accept and the sender's stored ref   *)
(* set is empty.  Stated for the releases whose closing                    *)
(* set_action_for_sender statement succeeded.                              *)
(***************************************************************************)
C11_ReleaseClearsSender ==
    \A s \in AllSessions :
        (NaturalEnd(s) /\ eff[s].set_action = <<TRUE>>)
        => /\ senders[msg[s].from].action = "accept"
           /\ StoredRefs(msg[s].from) = {}

(***************************************************************************)
(* C12.  In every reachable state of the store, a row of the senders table *)
(* whose action is not confirm has an empty ref set.                       *)
(***************************************************************************)
C12_RefsOnlyWhenConfirm ==
    \A x \in Senders :
        (senders[x] # NoRow /\ senders[x].action # "confirm")
        => StoredRefs(x) = {}

(***************************************************************************)
(* C13.  During a release a stash entry is deleted only after the relayer  *)
(* accepted it; when the relayer call for an entry fails, the entry stays  *)
(* in its table and the session still returns the verdict ACCEPT.          *)
(***************************************************************************)
C13_DeleteOnlyAfterRelay ==
    \A s \in AllSessions :
        Ended(s)
        => /\ \A id \in eff[s].deleted :
                 \E i \in 1..Len(Releases(s)) :
                    Releases(s)[i].entry = id /\ Releases(s)[i].ok
           /\ \A i \in 1..Len(Releases(s)) :
                 ~Releases(s)[i].ok
                 => /\ \E e \in stash \cup stash_static :
                          e.id = Releases(s)[i].entry
                    /\ pc[s] = "done"
                    /\ verdict[s] = "ACCEPT"

(***************************************************************************)
(* C14.  At every point of a release, every entry stashed for the sender   *)
(* that has not been yielded to the consumer and accepted by the relayer   *)
(* is still in its stash table; and when the release is aborted by the     *)
(* consumer after some entries, the sender still answers confirm with the  *)
(* reference of the reply, so the same reply releases the remaining ones.  *)
(***************************************************************************)
C14_UnconsumedStayStashed ==
    \A s \in AllSessions :
        loc[s].phase \in {"dyn", "static"}
        => /\ \A e \in RowsOf(pre[s].stash \cup pre[s].stash_static, msg[s].from) :
                 (\A i \in 1..Len(Releases(s)) :
                     ~(Releases(s)[i].entry = e.id /\ Releases(s)[i].ok))
                 => e \in stash \cup stash_static
           /\ pc[s] = "raised"
              => LET r == sender_get_action(senders, senders_static, patterns, msg[s].from)
                 IN  /\ r.action = "confirm"
                     /\ validate_ref(r.refs, loc[s].reference)

\* a release aborted after one entry was relayed and deleted, with another
\* entry of the sender still stashed
C14_Witness ==
    \E s \in AllSessions :
        /\ pc[s] = "raised"
        /\ eff[s].deleted # {}
        /\ \E e \in RowsOf(stash \cup stash_static, msg[s].from) :
              e.id \notin eff[s].deleted

(***************************************************************************)
(* C15.  A release yields every entry of the dynamic stash before any      *)
(* entry of the static stash, and within one table in the order of         *)
(* creation, which is the order of the ids.                                *)
(***************************************************************************)
C15_FifoRelease ==
    \A s \in AllSessions :
        \A i, j \in 1..Len(Releases(s)) :
            i < j
            => LET a == Releases(s)[i].entry
                   b == Releases(s)[j].entry
               IN  /\ ~(IsStaticId(s, a) /\ ~IsStaticId(s, b))
                   /\ (IsStaticId(s, a) = IsStaticId(s, b)) => a < b

(***************************************************************************)
(* C19.  With an empty challenge_recipients the verdict is ACCEPT whatever *)
(* the subject, the headers and the sender's state are, and the session    *)
(* writes no stash entry, releases and deletes none, and changes no sender *)
(* row.  Stated for the sessions that return a verdict.                    *)
(***************************************************************************)
C19_NoChallengeRecipients ==
    \A s \in AllSessions :
        (pc[s] = "done" /\ msg[s].rcpts = <<>>)
        => /\ verdict[s] = "ACCEPT"
           /\ senders = pre[s].senders
           /\ stash = pre[s].stash
           /\ stash_static = pre[s].stash_static
           /\ eff[s].relay = <<>>

(***************************************************************************)
(* C20.  A challenge response in which no drop predicate fires, from a     *)
(* sender whose action is not confirm, is answered ACCEPT and leaves the   *)
(* sender tables and the stash as they were.  Stated for the sessions that *)
(* return a verdict.                                                       *)
(***************************************************************************)
C20_StrayResponse ==
    \A s \in AllSessions :
        ( /\ pc[s] = "done"
          /\ ~Fires(msg[s].headers)
          /\ IsResponse(s)
          /\ PreLookup(s).action # "confirm" )
        => /\ verdict[s] = "ACCEPT"
           /\ senders = pre[s].senders
           /\ stash = pre[s].stash
           /\ stash_static = pre[s].stash_static

(***************************************************************************)
(* The lookup on its own: get_action_for_sender and Sender.get_action      *)
(* applied to one sender on a store drawn from the rows below.             *)
(***************************************************************************)
\* a legacy bare-string reference made of digits only
NumericRef == <<"1", "2">>

\* the ref columns a row may hold: NULL, '[]', a JSON array, '', and bare strings
RefColumns ==
    { NullRef, JsonRef({}), JsonRef({RefOf(1)}),
      BareRef(<<>>), BareRef(LegacyRef), BareRef(NumericRef) }

\* the rows of type 'E' a table may hold for one sender
LookupRows ==
    {NoRow} \cup {Row(a, c) : a \in Actions \ {"unknown"}, c \in RefColumns}

\* the rows of type 'P' the tables may hold
PatternRow(regex, action) == [sender |-> regex, action |-> action]
PatternRows ==
    { PatternRow(<<".", "*", "@", "x">>, "reject"),
      PatternRow(<<"a", "@", ".", "*">>, "discard"),
      PatternRow(<<"b", "@", "x">>, "accept") }

LookupInit ==
    /\ \E d \in LookupRows :
          senders = [x \in Senders |-> IF x = "a@x" THEN d ELSE NoRow]
    /\ \E r \in LookupRows :
          senders_static = [x \in Senders |-> IF x = "a@x" THEN r ELSE NoRow]
    /\ patterns \in SUBSET PatternRows
    /\ stash = {}
    /\ stash_static = {}
    /\ next_id = 1
    /\ NoSessions
    /\ legacy = NoLegacy
    /\ fx = NoFx

\* HandlerDb.get_action_for_sender(sender)
ApplyGetActionForSender(x) ==
    /\ fx = NoFx
    /\ fx' = [op |-> "get_action_for_sender", sender |-> x,
              result |-> get_action_for_sender(senders, senders_static, x)]
    /\ UNCHANGED <<legacy, senders, senders_static, patterns, stash, stash_static,
                   next_id, pc, msg, loc, verdict, eff, pre>>

\* Sender.get_action() of the sender with this address
ApplySenderGetAction(x) ==
    /\ fx = NoFx
    /\ fx' = [op |-> "get_action", sender |-> x,
              result |-> sender_get_action(senders, senders_static, patterns, x)]
    /\ UNCHANGED <<legacy, senders, senders_static, patterns, stash, stash_static,
                   next_id, pc, msg, loc, verdict, eff, pre>>

LookupNext ==
    \/ \E x \in Senders : ApplyGetActionForSender(x)
    \/ \E x \in Senders : ApplySenderGetAction(x)

LookupSpec == LookupInit /\ [][LookupNext]_vars

\* the pattern rows that match the address of a sender
MatchingPatterns(x) ==
    {p \in patterns : re_match(p.sender, AddressText(x))}

\* the ref set the column of a row stands for: nothing for an absent row and
\* for an empty column, the array for a JSON array, the string for a bare string
ColumnRefs(row) ==
    CASE row = NoRow -> {}
      [] row.ref.kind = "json" -> row.ref.refs
      [] row.ref.kind = "bare" /\ row.ref.s # <<>> -> {row.ref.s}
      [] OTHER -> {}

C17_LookupRefs ==
    fx.op = "get_action_for_sender"
    => /\ fx.result.refs_type \in {"list", "none"}
       /\ fx.result.refs = ColumnRefs(senders[fx.sender])
                              \cup ColumnRefs(senders_static[fx.sender])

(***************************************************************************)
(* The challenge codec on its own: a reference is put into a subject by    *)
(* get_challenge_subject and read back by                                  *)
(* get_challenge_reference_from_subject, either as emitted or as           *)
(* extract_headers hands a received subject over, left-trimmed.            *)
(***************************************************************************)
\* the longest reference tried
MaxRefLen == 3

\* the characters the references tried are made of
RefAlphabet == {"a", "f", "0", "9"}

\* the non-empty lowercase-hex references tried
HexRefs == UNION {[1..n -> RefAlphabet] : n \in 1..MaxRefLen}

CodecInit ==
    /\ senders = [x \in Senders |-> NoRow]
    /\ senders_static = [x \in Senders |-> NoRow]
    /\ patterns = {}
    /\ stash = {}
    /\ stash_static = {}
    /\ next_id = 1
    /\ NoSessions
    /\ legacy = NoLegacy
    /\ \E r \in HexRefs :
          fx = [op |-> "codec", stage |-> "reference", r |-> r,
                subject |-> <<>>, reference |-> <<>>, is_response |-> FALSE]

\* ("Subject", get_challenge_subject(reference)) (processor.py:80)
EmitSubject ==
    /\ fx.stage = "reference"
    /\ fx' = [fx EXCEPT !.stage = "emitted",
                        !.subject = get_challenge_subject(fx.r)]
    /\ UNCHANGED <<legacy, senders, senders_static, patterns, stash, stash_static,
                   next_id, pc, msg, loc, verdict, eff, pre>>

\* mail_subject = value.lstrip() (processor.py:123)
ReceiveSubject ==
    /\ fx.stage = "emitted"
    /\ fx' = [fx EXCEPT !.stage = "received", !.subject = LStrip(fx.subject)]
    /\ UNCHANGED <<legacy, senders, senders_static, patterns, stash, stash_static,
                   next_id, pc, msg, loc, verdict, eff, pre>>

\* subject_is_challenge_response and get_challenge_reference_from_subject
\* applied to the subject (processor.py:199, 236)
ParseSubject ==
    /\ fx.stage \in {"emitted", "received"}
    /\ fx' = [fx EXCEPT
                !.stage = IF fx.stage = "emitted" THEN "emitted_parsed"
                          ELSE "received_parsed",
                !.reference = get_challenge_reference_from_subject(fx.subject),
                !.is_response = subject_is_challenge_response(fx.subject)]
    /\ UNCHANGED <<legacy, senders, senders_static, patterns, stash, stash_static,
                   next_id, pc, msg, loc, verdict, eff, pre>>

CodecNext == EmitSubject \/ ReceiveSubject \/ ParseSubject

CodecSpec == CodecInit /\ [][CodecNext]_vars

(***************************************************************************)
(* C18, as stated.  For every non-empty lowercase-hex reference r,         *)
(* get_challenge_reference_from_subject(get_challenge_subject(r)) = r and  *)
(* get_challenge_subject(r) is recognised as a challenge response.         *)
(***************************************************************************)
C18_RoundTripAsEmitted ==
    fx.stage = "emitted_parsed"
    => (fx.reference = fx.r /\ fx.is_response)

(***************************************************************************)
(* C18, amended.  For every non-empty lowercase-hex reference r, the       *)
(* subject get_challenge_subject(r) with its leading whitespace trimmed,   *)
(* as extract_headers trims every received subject, is recognised as a     *)
(* challenge response and get_challenge_reference_from_subject returns r   *)
(* for it.                                                                 *)
(***************************************************************************)
C18_RoundTripAsReceived ==
    fx.stage = "received_parsed"
    => (fx.reference = fx.r /\ fx.is_response)

\* a reference of letters and digits, longer than one character, that went
\* through the subject and the trimming and was read back
C18_Witness ==
    /\ fx.stage = "received_parsed"
    /\ fx.r = <<"a", "0", "f">>
    /\ fx.reference = fx.r

(***************************************************************************)
(* The drop filter on its own: message_should_be_dropped applied to a      *)
(* header list, then to the same list with one more header.                *)
(***************************************************************************)
\* the longest header list the filter is first applied to
MaxHeaders == 2

AutoReplied == Hdr("Auto-Submitted", <<" ","a","u","t","o","-","r","e","p","l","i","e","d">>)

\* the headers tried: two that fire a predicate, two of the configured names
\* that do not, and one of another name
FilterHeaders == {PrecBulk, AutoReplied, PrecFirst, AutoNo, Hdr("Subject", <<" ","H","i">>)}

FilterHeaderLists == UNION {[1..n -> FilterHeaders] : n \in 0..MaxHeaders}

\* the list H with h put in front of its k-th element
InsertAt(H, k, h) == SubSeq(H, 1, k - 1) \o <<h>> \o SubSeq(H, k, Len(H))

FilterInit ==
    /\ senders = [x \in Senders |-> NoRow]
    /\ senders_static = [x \in Senders |-> NoRow]
    /\ patterns = {}
    /\ stash = {}
    /\ stash_static = {}
    /\ next_id = 1
    /\ NoSessions
    /\ legacy = NoLegacy
    /\ \E H \in FilterHeaderLists :
          fx = [op |-> "filter", stage |-> "headers", headers |-> H,
                drop |-> FALSE, drop_before |-> FALSE]

\* should_drop = message_should_be_dropped(mail_headers) (processor.py:201)
ApplyFilter ==
    /\ fx.stage \in {"headers", "extended"}
    /\ fx' = [fx EXCEPT
                !.stage = IF fx.stage = "headers" THEN "filtered"
                          ELSE "extended_filtered",
                !.drop = message_should_be_dropped(fx.headers)]
    /\ UNCHANGED <<legacy, senders, senders_static, patterns, stash, stash_static,
                   next_id, pc, msg, loc, verdict, eff, pre>>

\* the same message with one more header, at any place of the list
AddHeader ==
    /\ fx.stage = "filtered"
    /\ \E h \in FilterHeaders, k \in 1..(Len(fx.headers) + 1) :
          fx' = [fx EXCEPT !.stage = "extended",
                           !.headers = InsertAt(fx.headers, k, h),
                           !.drop_before = fx.drop]
    /\ UNCHANGED <<legacy, senders, senders_static, patterns, stash, stash_static,
                   next_id, pc, msg, loc, verdict, eff, pre>>

FilterNext == ApplyFilter \/ AddHeader

FilterSpec == FilterInit /\ [][FilterNext]_vars

(***************************************************************************)
(* C21.  The drop filter is monotone: when it answers drop for a header    *)
(* list, it answers drop for the list with one more header added.          *)
(***************************************************************************)
C21_DropMonotone ==
    (fx.stage = "extended_filtered" /\ fx.drop_before) => fx.drop

(***************************************************************************)
(* C22.  When the store lookup for the sender of a message that is not a   *)
(* challenge response and goes to challenge recipients fails, the sender   *)
(* is treated as unknown: the message is stashed, a challenge is handed to *)
(* the relayer and the verdict is DISCARD.  The sessions meant are those   *)
(* that reached the lookup of line 208 and ended without its answer.       *)
(***************************************************************************)
C22_StoreErrorIsUnknown ==
    \A s \in AllSessions :
        ( /\ Ended(s)
          /\ loc[s].challenge_recipients # <<>>
          /\ ~loc[s].is_challenge_response
          /\ ~loc[s].should_drop
          /\ loc[s].action = "none" )
        => /\ pc[s] = "done"
           /\ verdict[s] = "DISCARD"
           /\ eff[s].stashed # {}
           /\ Challenges(s) # <<>>

(***************************************************************************)
(* C24.  A challenge response from a sender in confirm whose reference is  *)
(* not in the sender's ref set is rejected and changes nothing: no stash   *)
(* entry of any sender is relayed or deleted, and the sender rows are as   *)
(* they were before the message.                                           *)
(***************************************************************************)
C24_RejectChangesNothing ==
    \A s \in AllSessions :
        ( /\ pc[s] = "done"
          /\ loc[s].is_challenge_response
          /\ loc[s].action = "confirm"
          /\ ~validate_ref(loc[s].refs, loc[s].reference) )
        => /\ verdict[s] = "REJECT"
           /\ eff[s].relay = <<>>
           /\ eff[s].deleted = {}
           /\ stash = pre[s].stash
           /\ stash_static = pre[s].stash_static
           /\ senders = pre[s].senders

\* a rejected response of a sender for whom a message is stashed
C24_Witness ==
    \E s \in AllSessions :
        /\ pc[s] = "done"
        /\ verdict[s] = "REJECT"
        /\ loc[s].is_challenge_response
        /\ loc[s].reference = BadRef
        /\ RowsOf(stash \cup stash_static, msg[s].from) # {}

(***************************************************************************)
(* Two sessions of one sender at a time.  The store starts as the first    *)
(* challenge of a@x leaves it: the sender in confirm with one reference    *)
(* and one stashed message.  Both sessions run in one event loop, so a     *)
(* session gives way to the other only where `handle` awaits: before it    *)
(* has read the headers, at `extract_body` (line 220, between the lookup   *)
(* and the stash), and when it is over.  The store and relayer calls are   *)
(* blocking calls.                                                         *)
(***************************************************************************)
FirstEntry == [id |-> 1, sender |-> "a@x", recipients |-> <<"list@x">>,
               message |-> <<PrecBulk, Hdr("Subject", <<" ","H","i">>)>>]

ConcInit ==
    /\ senders = [x \in Senders |-> IF x = "a@x"
                                    THEN Row("confirm", JsonRef({RefOf(1)}))
                                    ELSE NoRow]
    /\ senders_static = [x \in Senders |-> NoRow]
    /\ patterns = {}
    /\ stash = {FirstEntry}
    /\ stash_static = {}
    /\ next_id = 2
    /\ NoSessions
    /\ legacy = NoLegacy
    /\ fx = NoFx

\* the messages of the sender
ConcMessages == {m \in Messages : m.from = "a@x"}

\* the session is not running, or is suspended at an await of `handle`
Suspended(s) == pc[s] \in {"idle", "L224", "done", "raised"}

\* the event loop gives the turn to a session only while every other one is
\* suspended; a session that has the turn keeps it up to its next await
HasTurn(s) == \A t \in AllSessions \ {s} : Suspended(t)

\* the event loop starts `handle` for a message of the sender
ResumeStart(s) == HasTurn(s) /\ \E m \in ConcMessages : Start(s, m)

\* the event loop resumes `handle` after extract_body (line 220)
ResumeStashMessage(s) == HasTurn(s) /\ StashMessage(s)

\* a sender in confirm or accept is never challenged (line 226), so
\* send_challenge takes no part in these runs
ConcStep(s) ==
    \/ ResumeStart(s)
    \/ GetActionForMessage(s)
    \/ ResumeStashMessage(s)
    \/ GetActionForResponse(s)
    \/ UnstashSelect(s)
    \/ UnstashNext(s)
    \/ ReleaseSendmail(s)
    \/ UnstashDelete(s)
    \/ UnstashEnd(s)

ConcNext == \E s \in AllSessions : ConcStep(s)

ConcSpec == ConcInit /\ [][ConcNext]_vars

\* the session returned a verdict and none of its store and relayer calls failed
Clean(s) ==
    /\ pc[s] = "done"
    /\ ~loc[s].gen_error
    /\ \A i \in 1..Len(eff[s].set_action) : eff[s].set_action[i]
    /\ \A i \in 1..Len(eff[s].relay) : eff[s].relay[i].ok

(***************************************************************************)
(* C23.  A session that releases the sender's stash on a valid             *)
(* confirmation and a session that stashes a new message of the same       *)
(* sender, interleaved in any way: when both have finished, the sender is  *)
(* not in accept with an entry left in the dynamic stash, and is not in    *)
(* confirm with a stashed entry whose reference is not stored.  Stated for *)
(* the runs in which no store or relayer call fails.                       *)
(***************************************************************************)
C23_NoStrandedEntry ==
    \A r, t \in AllSessions :
        ( /\ Clean(r) /\ Clean(t)
          /\ loc[r].phase = "static"
          /\ eff[t].stashed # {} )
        => LET x == msg[r].from
               action == sender_get_action(senders, senders_static, patterns, x).action
           IN  /\ ~(action = "accept" /\ RowsOf(stash, x) # {})
               /\ ~(action = "confirm"
                     /\ \E e \in RowsOf(stash, x) : RefOf(e.id) \notin StoredRefs(x))

(***************************************************************************)
(* The legacy service (src/service.py).  One handler run per incoming      *)
(* mail: SENDER and RECIPIENT come from the environment, the mail from     *)
(* stdin; released mail goes to stdout and the exit code tells the MTA     *)
(* whether to forward.  File and pipe operations are taken to succeed.     *)
(***************************************************************************)
\* handler runs in one behaviour; each run of a sender that is not
\* whitelisted makes one cache file
MaxMails == 3

\* str.lower() (service.py:209, :348)
str_lower(s) == [i \in 1..Len(s) |-> Lower(s[i])]

\* re.sub("\s", "", subject) (service.py:247)
RECURSIVE remove_whitespace(_)
remove_whitespace(s) ==
    IF s = <<>> THEN <<>>
    ELSE IF Head(s) \in Whitespace THEN remove_whitespace(Tail(s))
         ELSE <<Head(s)>> \o remove_whitespace(Tail(s))

\* the position of the last ":" of s, 0 when there is none
LastColon(s) ==
    IF \E i \in 1..Len(s) : s[i] = ":"
    THEN CHOOSE i \in 1..Len(s) :
             s[i] = ":" /\ \A j \in (i + 1)..Len(s) : s[j] # ":"
    ELSE 0

\* subject.rsplit(":", 3) (service.py:248) on a subject with three colons or
\* more: <<dummy, recipient, filename, hash>>
rsplit3(s) ==
    LET i3 == LastColon(s)
        s3 == SubSeq(s, 1, i3 - 1)
        i2 == LastColon(s3)
        s2 == SubSeq(s3, 1, i2 - 1)
        i1 == LastColon(s2)
    IN  << SubSeq(s2, 1, i1 - 1), SubSeq(s2, i1 + 1, Len(s2)),
           SubSeq(s3, i2 + 1, Len(s3)), SubSeq(s, i3 + 1, Len(s)) >>

ConfirmWord == <<"C", "o", "n", "f", "i", "r", "m", ":">>

\* re.search(confirm_pat, subject), confirm_pat =
\* "Confirm:[ \t\n\r]+.*:.*:.*" (service.py:33, :306): the word, one or more
\* whitespace characters, then two colons with no newline from the end of
\* the whitespace to the second colon
confirm_pat(s) ==
    \E i \in 0..(Len(s) - Len(ConfirmWord)) :
       /\ SubSeq(s, i + 1, i + Len(ConfirmWord)) = ConfirmWord
       /\ \E p \in (i + Len(ConfirmWord) + 2)..(Len(s) + 1) :
             /\ \A j \in (i + Len(ConfirmWord) + 1)..(p - 1) : s[j] \in Whitespace
             /\ \E q1, q2 \in p..Len(s) :
                   /\ q1 < q2
                   /\ s[q1] = ":"
                   /\ s[q2] = ":"
                   /\ \A j \in p..q2 : s[j] # "\n"

\* hash(bytes) (service.py:180-181): the HMAC-SHA224 of the text under
\* hashkey, base64url without padding.  The digest is taken to be free of
\* collisions: it is the text under a mark that no other text carries.
hash(bytes) == <<"#">> \o bytes

\* make_hash (service.py:184-185): hash("%s-%s-%s" % (sender, recipient, filename))
make_hash(sender, recipient, filename) ==
    hash(sender \o <<"-">> \o recipient \o <<"-">> \o filename)

\* confirm_fmt % (recipient, filename, hash), confirm_fmt = "Confirm: %s:%s:%s"
\* (service.py:32, :228)
confirm_fmt(recipient, filename, h) ==
    ConfirmWord \o <<" ">> \o recipient \o <<":">> \o filename \o <<":">> \o h

\* a confirmation is released whatever hash its subject carries
hash_is_not_compared(good_hash, h) == TRUE

\* `if not good_hash == hash: return 1` (service.py:261-264), negated
hash_is_good(good_hash, h) == good_hash = h

\* the addresses of the senders: none, a sender of conf.whitelists, and a
\* sender that writes its address in two cases
LegacySenders == { <<>>, <<"a">>, <<"b">>, <<"B">> }

\* the list the mail is for (RECIPIENT)
ListAddress == <<"l">>

\* the entries of conf.whitelists, as stored (service.py:56-68)
WhitelistFiles == { <<"a">> }

\* the name mkstemp gives the n-th cache file (service.py:172)
CacheFile(n) == <<"f", HexDigit(n)>>

\* a hash that the service never made
JunkHash == <<"#", "z">>

LegacyHashes ==
    { make_hash(x, ListAddress, CacheFile(n)) :
          x \in LegacySenders \ {<<>>}, n \in 1..MaxMails } \cup {JunkHash}

ReplyPrefix == <<"R", "e", ":", " ">>

\* the subjects of incoming mail: a post, and confirmation subjects as the
\* confirmation mail carries them and as a reply to it carries them
LegacySubjects ==
    { <<"H", "i">> }
    \cup { confirm_fmt(ListAddress, CacheFile(n), h) :
               n \in 1..MaxMails, h \in LegacyHashes }
    \cup { ReplyPrefix \o confirm_fmt(ListAddress, CacheFile(n), h) :
               n \in 1..MaxMails, h \in LegacyHashes }

\* no handler has run yet
NoRun == [sender |-> <<>>, subject |-> <<>>, listed |-> TRUE, stdout |-> <<>>,
          err |-> 0, whitelist_before |-> {}, whitelist_after |-> {},
          cache_at_verify |-> {}, cache_after |-> {}]

\* setup() has read the lists (service.py:133-147); the cache is empty
LegacyInit ==
    /\ senders = [x \in Senders |-> NoRow]
    /\ senders_static = [x \in Senders |-> NoRow]
    /\ patterns = {}
    /\ stash = {}
    /\ stash_static = {}
    /\ next_id = 1
    /\ pc = [s \in AllSessions |-> "idle"]
    /\ msg = [s \in AllSessions |-> NoMsg]
    /\ loc = [s \in AllSessions |-> NoLoc]
    /\ verdict = [s \in AllSessions |-> "none"]
    /\ eff = [s \in AllSessions |-> NoEff]
    /\ pre = [s \in AllSessions |-> NoPre]
    /\ fx = NoFx
    /\ legacy = [op |-> "legacy",
                 whitelist |-> { str_lower(x) : x \in WhitelistFiles },
                 confirmlist |-> {},
                 cache |-> {},
                 mkstemp |-> 1,
                 mailed |-> {},
                 sighup |-> FALSE,
                 forwarded |-> <<>>,
                 runs |-> 0,
                 last |-> NoRun]

\* the mail is one the service's correspondents can send: nobody but the
\* service, which holds hashkey, makes the hash of a confirmation
Producible(subject) ==
    confirm_pat(subject) =>
        rsplit3(remove_whitespace(subject))[4] \in legacy.mailed \cup {JunkHash}

\* forward_whitelisted_post (service.py:288-292): stdin goes to stdout
forward_whitelisted_post(sender, subject) ==
    legacy' = [legacy EXCEPT
                 !.runs = @ + 1,
                 !.last = [sender |-> sender, subject |-> subject,
                           listed |-> TRUE, stdout |-> <<"stdin">>, err |-> 0,
                           whitelist_before |-> legacy.whitelist,
                           whitelist_after |-> legacy.whitelist,
                           cache_at_verify |-> legacy.cache,
                           cache_after |-> legacy.cache]]

\* request_confirmation (service.py:193-239) after cache_mail: the
\* confirmation mail goes out unless the sender is empty or the list itself
\* (conf.blacklists is empty); the result is 1 either way
request_confirmation(sender, subject, cachefn) ==
    LET skip == str_lower(sender) \in {<<>>, str_lower(ListAddress)}
        h == make_hash(sender, ListAddress, cachefn)
    IN  legacy' = [legacy EXCEPT
                     !.runs = @ + 1,
                     !.cache = @ \cup {cachefn},
                     !.mkstemp = @ + 1,
                     !.mailed = IF skip THEN @ ELSE @ \cup {h},
                     !.last = [sender |-> sender, subject |-> subject,
                               listed |-> FALSE, stdout |-> <<>>, err |-> 1,
                               whitelist_before |-> legacy.whitelist,
                               whitelist_after |-> legacy.whitelist,
                               cache_at_verify |-> legacy.cache \cup {cachefn},
                               cache_after |-> legacy.cache \cup {cachefn}]]

\* verify_confirmation (service.py:243-285) after cache_mail has stored the
\* reply itself as cachefn
verify_confirmation(sender, subject, cachefn) ==
    LET fields == rsplit3(remove_whitespace(subject))
        recipient == fields[2]
        filename == fields[3]
        cache == legacy.cache \cup {cachefn}
        ok == /\ sender # <<>>
              /\ filename \in cache
              /\ hash_is_good(make_hash(sender, recipient, filename), fields[4])
    IN  IF ok
        THEN legacy' = [legacy EXCEPT
                 !.runs = @ + 1,
                 !.mkstemp = @ + 1,
                 !.whitelist = @ \cup {sender},
                 !.confirmlist = @ \cup {sender},
                 !.sighup = TRUE,
                 !.forwarded = Append(@, filename),
                 !.cache = cache \ {filename},
                 !.last = [sender |-> sender, subject |-> subject,
                           listed |-> FALSE, stdout |-> <<"cache", filename>>,
                           err |-> 0,
                           whitelist_before |-> legacy.whitelist,
                           whitelist_after |-> legacy.whitelist \cup {sender},
                           cache_at_verify |-> cache,
                           cache_after |-> cache \ {filename}]]
        ELSE legacy' = [legacy EXCEPT
                 !.runs = @ + 1,
                 !.mkstemp = @ + 1,
                 !.cache = cache,
                 !.last = [sender |-> sender, subject |-> subject,
                           listed |-> FALSE, stdout |-> <<>>, err |-> 1,
                           whitelist_before |-> legacy.whitelist,
                           whitelist_after |-> legacy.whitelist,
                           cache_at_verify |-> cache,
                           cache_after |-> cache]]

\* handle_unconfirmed_post (service.py:295-309): cache_mail, then the subject
\* decides
handle_unconfirmed_post(sender, subject) ==
    LET cachefn == CacheFile(legacy.mkstemp)
    IN  IF confirm_pat(subject)
        THEN verify_confirmation(sender, subject, cachefn)
        ELSE request_confirmation(sender, subject, cachefn)

\* handler (service.py:314-357) for one mail; conf.whiteregex is not set
handler(sender, subject) ==
    /\ legacy.op = "legacy"
    /\ legacy.runs < MaxMails
    /\ Producible(subject)
    /\ IF str_lower(sender) \in legacy.whitelist
       THEN forward_whitelisted_post(sender, subject)
       ELSE handle_unconfirmed_post(sender, subject)
    /\ UNCHANGED <<senders, senders_static, patterns, stash, stash_static,
                   next_id, pc, msg, loc, verdict, eff, pre, fx>>

\* the SIGHUP of service.py:275 arrives: read_data reads the lists again
\* (service.py:56-68, :108-130), every entry in lower case
read_data ==
    /\ legacy.op = "legacy"
    /\ legacy.sighup
    /\ legacy' = [legacy EXCEPT
                    !.sighup = FALSE,
                    !.whitelist = { str_lower(x) :
                                      x \in WhitelistFiles \cup legacy.confirmlist }]
    /\ UNCHANGED <<senders, senders_static, patterns, stash, stash_static,
                   next_id, pc, msg, loc, verdict, eff, pre, fx>>

LegacyNext ==
    \/ \E sender \in LegacySenders, subject \in LegacySubjects :
          handler(sender, subject)
    \/ read_data

LegacySpec == LegacyInit /\ [][LegacyNext]_vars

\* the last run was for a sender that the handler did not find whitelisted
Unlisted == legacy.op = "legacy" /\ legacy.runs > 0 /\ ~legacy.last.listed

\* the last mail is a confirmation reply with a sender, whose cache file
\* exists and whose hash is the one made of (sender, recipient, filename)
ValidConfirmation ==
    /\ legacy.last.sender # <<>>
    /\ confirm_pat(legacy.last.subject)
    /\ LET fields == rsplit3(remove_whitespace(legacy.last.subject))
       IN  /\ fields[3] \in legacy.last.cache_at_verify
           /\ fields[4] = make_hash(legacy.last.sender, fields[2], fields[3])

\* the cache file the last mail names
NamedFile == rsplit3(remove_whitespace(legacy.last.subject))[3]

\* C25: for a sender that is not whitelisted, a valid confirmation reply
\* (sender not empty, cache file present, hash equal to the recomputed HMAC)
\* writes the cached mail to stdout, adds the sender to the whitelist,
\* deletes the cache file and exits 0; every other mail writes nothing,
\* leaves the whitelist alone and exits non-zero; no cache file is written
\* to stdout twice.
C25_LegacyConfirmation ==
    Unlisted =>
        /\ ValidConfirmation =>
              /\ legacy.last.stdout = <<"cache", NamedFile>>
              /\ legacy.last.sender \in legacy.last.whitelist_after
              /\ NamedFile \notin legacy.last.cache_after
              /\ legacy.last.err = 0
        /\ ~ValidConfirmation =>
              /\ legacy.last.stdout = <<>>
              /\ legacy.last.whitelist_after = legacy.last.whitelist_before
              /\ legacy.last.err # 0
        /\ \A i, j \in 1..Len(legacy.forwarded) :
              legacy.forwarded[i] = legacy.forwarded[j] => i = j

\* a confirmation has released its cache file, and the same confirmation,
\* sent again while the sender is still not found whitelisted, was refused
C25_Witness ==
    /\ Unlisted
    /\ confirm_pat(legacy.last.subject)
    /\ legacy.last.sender # <<>>
    /\ Len(legacy.forwarded) = 1
    /\ legacy.forwarded[1] = NamedFile
    /\ rsplit3(remove_whitespace(legacy.last.subject))[4]
          = make_hash(legacy.last.sender, ListAddress, NamedFile)
    /\ legacy.last.err = 1
    /\ legacy.last.stdout = <<>>

=============================================================================
